---- MODULE Spec2Model ----
(***************************************************************************)
(* Model of EcoNet::BeePolytopeGuard                                       *)
(* (qpudatashards/particles/include/BeePolytopeGuard.hpp).                 *)
(*                                                                         *)
(* The engine is one object holding a configuration set by its constructor *)
(* and three const member functions.  The state of the model is the        *)
(* engine's five members plus the caller's view of the call last made: the *)
(* arguments, the locals of the call and the value returned.               *)
(*                                                                         *)
(* A double is modelled as an exact fraction <<n, d>> in lowest terms with *)
(* d > 0, extended with the IEEE-754 specials a division by zero yields:   *)
(* <<1, 0>> is +inf, <<-1, 0>> is -inf and <<0, 0>> is NaN.                *)
(***************************************************************************)
EXTENDS Integers, Sequences, FiniteSets, TLC

\* ------------------------------------------------------------------------
\* Bounds of the model
\* ------------------------------------------------------------------------

\* Pollutant readings (pm25, nox, o3, voc) range over -1 .. MaxReading.
MaxReading == 1

\* Threads that call one engine concurrently.
NumThreads == 2

\* ------------------------------------------------------------------------
\* double arithmetic
\* ------------------------------------------------------------------------

Abs(i) == IF i < 0 THEN 0 - i ELSE i

Sign(i) == IF i > 0 THEN 1 ELSE IF i < 0 THEN 0 - 1 ELSE 0

RECURSIVE Gcd(_, _)
Gcd(a, b) == IF b = 0 THEN a ELSE Gcd(b, a % b)

\* The double with value n/d; n/0 is an infinity of the sign of n, 0/0 NaN.
Norm(n, d) ==
    IF d = 0 THEN <<Sign(n), 0>>
    ELSE LET g == Gcd(Abs(n), Abs(d))
         IN  <<Sign(n) * Sign(d) * (Abs(n) \div g), Abs(d) \div g>>

Num(i) == <<i, 1>>

Zero == Num(0)
One == Num(1)
Half == <<1, 2>>
NaN == <<0, 0>>

IsNaN(a) == a = NaN

IsFinite(a) == a[2] # 0

\* a + b
Add(a, b) ==
    IF IsFinite(a) /\ IsFinite(b) THEN Norm(a[1] * b[2] + b[1] * a[2], a[2] * b[2])
    ELSE IF IsNaN(a) \/ IsNaN(b) THEN NaN
    ELSE IF ~IsFinite(a) /\ ~IsFinite(b) THEN (IF a = b THEN a ELSE NaN)
    ELSE IF ~IsFinite(a) THEN a ELSE b

\* a - b
Sub(a, b) == Add(a, <<0 - b[1], b[2]>>)

\* a * b
Mul(a, b) == Norm(a[1] * b[1], a[2] * b[2])

\* a / b, b = 0 being the positive zero
Div(a, b) == Norm(a[1] * b[2] * (IF b[1] < 0 THEN 0 - 1 ELSE 1), a[2] * Abs(b[1]))

\* a < b; every comparison with NaN is false
Lt(a, b) ==
    /\ ~IsNaN(a)
    /\ ~IsNaN(b)
    /\ IF ~IsFinite(a) /\ ~IsFinite(b) THEN a[1] < b[1]
       ELSE a[1] * b[2] < b[1] * a[2]

\* a <= b
Le(a, b) == ~IsNaN(a) /\ ~IsNaN(b) /\ (a = b \/ Lt(a, b))

\* a > b
Gt(a, b) == Lt(b, a)

\* a >= b
Ge(a, b) == Le(b, a)

\* std::max(a, b): (a < b) ? b : a
Max(a, b) == IF Lt(a, b) THEN b ELSE a

\* ------------------------------------------------------------------------
\* Types
\* ------------------------------------------------------------------------

\* enum class RegionClass
FORAGE_SAFE == "FORAGE_SAFE"
RETREAT_ONLY == "RETREAT_ONLY"
FORBIDDEN == "FORBIDDEN"

RegionClass == {FORAGE_SAFE, RETREAT_ONLY, FORBIDDEN}

\* struct State5D
State5D(pm25, nox, o3, temp, floral) ==
    [pm25_ug_m3 |-> pm25, nox_ppb |-> nox, o3_ppb |-> o3,
     temp_C |-> temp, floral_m2_ha |-> floral]

\* struct BeeHazardParams, from the four LC50 values, the four mixture
\* weights and the viability corridor
BeeHazardParams(lc50, w, viab) ==
    [lc50_pm25_ug_m3 |-> lc50[1], lc50_nox_ppb |-> lc50[2],
     lc50_o3_ppb |-> lc50[3], lc50_voc_ug_m3 |-> lc50[4],
     w_pm25 |-> w[1], w_nox |-> w[2], w_o3 |-> w[3], w_voc |-> w[4],
     pm25_eq_viability_ug_m3 |-> viab]

\* struct Polytope {x | A x <= b}, from rows <<a1, .., a5, bound>> of integers
Polytope(rows) ==
    [A |-> [i \in 1..Len(rows) |-> [j \in 1..5 |-> Num(rows[i][j])]],
     b |-> [i \in 1..Len(rows) |-> Num(rows[i][6])]]

\* BeeHazardState h{} and BeeActuationLimits lim{}: value-initialised
NoHazard == [r_bee |-> Zero, pm25_eq |-> Zero, within_viability |-> FALSE]
NoLimits == [region |-> FORAGE_SAFE, duty_scale |-> Zero, allow_foraging |-> FALSE]
NoState == State5D(Zero, Zero, Zero, Zero, Zero)

\* ------------------------------------------------------------------------
\* Inputs: the configurations an engine is constructed with and the
\* readings it is called with
\* ------------------------------------------------------------------------

\* pm25, nox, o3 and voc readings, negative ones included
Readings == {Num(i) : i \in (0 - 1)..MaxReading}

\* temp_C readings
Temps == {One}

\* floral_m2_ha readings
Florals == {Zero, One}

States == {State5D(pm, nx, oz, t, f) :
             pm \in Readings, nx \in Readings, oz \in Readings,
             t \in Temps, f \in Florals}

\* LC50 values <<pm25, nox, o3, voc>>: each channel has a positive, a zero
\* or a negative threshold in one of them
LC50Vectors == {<<Num(1), Num(0), Num(2), Num(0 - 1)>>,
                <<Num(0), Num(2), Num(0 - 1), Num(1)>>}

\* mixture weights <<pm25, nox, o3, voc>>; the second has a negative weight,
\* which the engine does not reject
WeightVectors == {<<Half, One, Zero, Num(2)>>,
                  <<One, Num(0 - 1), One, One>>}

Viabilities == {One}

SoftLimits == {Num(0 - 1), One}

HardLimits == {Num(0 - 1), Zero, One, Num(2)}

\* no constraint at all: the whole space
EmptyPoly == Polytope(<<>>)

\* pm25 <= 0 and floral >= 1
ForagePoly == Polytope(<< <<1, 0, 0, 0, 0, 0>>, <<0, 0, 0, 0, 0 - 1, 0 - 1>> >>)

\* pm25 + nox <= 1; overlaps ForagePoly
RetreatPolyA == Polytope(<< <<1, 1, 0, 0, 0, 1>> >>)

\* o3 + temp <= 1 and nox >= 0
RetreatPolyB == Polytope(<< <<0, 0, 1, 1, 0, 1>>, <<0, 0 - 1, 0, 0, 0, 0>> >>)

ForagePolys == {EmptyPoly, ForagePoly}

RetreatPolys == {EmptyPoly, RetreatPolyA, RetreatPolyB}

\* ------------------------------------------------------------------------
\* State
\* ------------------------------------------------------------------------

VARIABLES
    params_,          \* BeeHazardParams
    foragePoly_,      \* Polytope
    retreatPoly_,     \* Polytope
    rBeeSoftLimit_,   \* double
    rBeeHardLimit_,   \* double
    pc,               \* the call the caller made last, "idle" before any
    again,            \* TRUE when that call repeats computeHazard with one
                      \* reading raised
    s,                \* argument s of the call
    voc_ug_m3,        \* argument voc_ug_m3 of the call
    hz,               \* BeeHazardState: computeHazard's h, computeActuation's hz
    region,           \* RegionClass: classifyRegion's result
    lim,              \* BeeActuationLimits: computeActuation's lim
    thr               \* per thread: the call it is in, where it is in that
                      \* call, its arguments, its locals and its result

engine == <<params_, foragePoly_, retreatPoly_, rBeeSoftLimit_, rBeeHardLimit_>>

vars == <<params_, foragePoly_, retreatPoly_, rBeeSoftLimit_, rBeeHardLimit_,
          pc, again, s, voc_ug_m3, hz, region, lim, thr>>

\* the single caller's view of its last call
caller == <<pc, again, s, voc_ug_m3, hz, region, lim>>

\* ------------------------------------------------------------------------
\* computeHazard
\* ------------------------------------------------------------------------

\* mutant: the threshold guard lets a zero threshold through
Ratio_GeZero(reading, lc50) == IF Ge(lc50, Zero) THEN Div(reading, lc50) ELSE Zero

\* mutant: the ratio upside down, lc50 / reading
Ratio_Inverted(reading, lc50) == IF Gt(lc50, Zero) THEN Div(lc50, reading) ELSE Zero

\* (lc50 > 0.0) ? reading / lc50 : 0.0
Ratio(reading, lc50) == IF Gt(lc50, Zero) THEN Div(reading, lc50) ELSE Zero

\* h.r_bee
RBee(st, voc) ==
    LET r_pm == Ratio(st.pm25_ug_m3, params_.lc50_pm25_ug_m3)
        r_nox == Ratio(st.nox_ppb, params_.lc50_nox_ppb)
        r_o3 == Ratio(st.o3_ppb, params_.lc50_o3_ppb)
        r_voc == Ratio(voc, params_.lc50_voc_ug_m3)
    IN  Add(Add(Add(Mul(params_.w_pm25, r_pm),
                    Mul(params_.w_nox, r_nox)),
                Mul(params_.w_o3, r_o3)),
            Mul(params_.w_voc, r_voc))

\* h.pm25_eq
Pm25Eq(st, voc) ==
    Add(Add(Add(st.pm25_ug_m3,
                Mul(params_.w_nox, st.nox_ppb)),
            Mul(params_.w_o3, st.o3_ppb)),
        Mul(params_.w_voc, voc))

\* mutant: the two viability conditions joined with || instead of &&
computeHazard_ViabilityOr(st, voc) ==
    LET r == RBee(st, voc)
        eq == Pm25Eq(st, voc)
    IN  [r_bee |-> r,
         pm25_eq |-> eq,
         within_viability |->
             Le(eq, params_.pm25_eq_viability_ug_m3) \/ Le(r, rBeeSoftLimit_)]

computeHazard(st, voc) ==
    LET r == RBee(st, voc)
        eq == Pm25Eq(st, voc)
    IN  [r_bee |-> r,
         pm25_eq |-> eq,
         within_viability |->
             Le(eq, params_.pm25_eq_viability_ug_m3) /\ Le(r, rBeeSoftLimit_)]

\* ------------------------------------------------------------------------
\* inPolytope and classifyRegion
\* ------------------------------------------------------------------------

\* the tolerance 1e-9 is 1 / TolDen
TolDen == 1000000000

\* the array x of inPolytope
Point(st) == <<st.pm25_ug_m3, st.nox_ppb, st.o3_ppb, st.temp_C, st.floral_m2_ha>>

\* the inner loop: dot += row[j] * x[j] for j = from .. 5
RECURSIVE DotLoop(_, _, _, _)
DotLoop(row, x, j, dot) ==
    IF j > 5 THEN dot ELSE DotLoop(row, x, j + 1, Add(dot, Mul(row[j], x[j])))

Dot(row, x) == DotLoop(row, x, 1, Zero)

\* mutant: an open region, dot >= bound
ExceedsBound_Open(dot, bound) == Ge(dot, bound)

\* dot > bound + 1e-9, decided on dot - bound = n/d without forming n * TolDen:
\* n/d > 1/TolDen iff n > 0 and TolDen > d \div n (an infinite difference
\* has d = 0, a NaN one n = 0)
ExceedsBound(dot, bound) ==
    LET diff == Sub(dot, bound)
    IN  diff[1] > 0 /\ TolDen > diff[2] \div diff[1]

\* mutant: a polytope without rows contains nothing
inPolytope_NonEmpty(P, st) ==
    /\ Len(P.A) > 0
    /\ \A i \in 1..Len(P.A) : ~ExceedsBound(Dot(P.A[i], Point(st)), P.b[i])

\* no row i < m returns false
inPolytope(P, st) ==
    \A i \in 1..Len(P.A) : ~ExceedsBound(Dot(P.A[i], Point(st)), P.b[i])

\* mutant: the retreat polytope tested first
classifyRegion_RetreatFirst(st) ==
    IF inPolytope(retreatPoly_, st) THEN RETREAT_ONLY
    ELSE IF inPolytope(foragePoly_, st) THEN FORAGE_SAFE
    ELSE FORBIDDEN

classifyRegion(st) ==
    IF inPolytope(foragePoly_, st) THEN FORAGE_SAFE
    ELSE IF inPolytope(retreatPoly_, st) THEN RETREAT_ONLY
    ELSE FORBIDDEN

\* ------------------------------------------------------------------------
\* computeActuation
\* ------------------------------------------------------------------------

\* mutant: the hard limit compared with > instead of >=
HardStop_StrictHard(reg, r_bee) == reg = FORBIDDEN \/ Gt(r_bee, rBeeHardLimit_)

\* region == FORBIDDEN || hz.r_bee >= rBeeHardLimit_
HardStop(reg, r_bee) == reg = FORBIDDEN \/ Ge(r_bee, rBeeHardLimit_)

\* mutant: the soft limit compared with >= instead of >
Throttled_GeSoft(reg, r_bee) == reg = RETREAT_ONLY \/ Ge(r_bee, rBeeSoftLimit_)

\* region == RETREAT_ONLY || hz.r_bee > rBeeSoftLimit_
Throttled(reg, r_bee) == reg = RETREAT_ONLY \/ Gt(r_bee, rBeeSoftLimit_)

\* mutant: alpha without the clip at 0.0
Alpha_NoClip(r_bee) == Sub(One, Div(r_bee, rBeeHardLimit_))

\* alpha = std::max(0.0, 1.0 - hz.r_bee / rBeeHardLimit_)
Alpha(r_bee) == Max(Zero, Sub(One, Div(r_bee, rBeeHardLimit_)))

\* mutant: full operation only within the viability corridor, throttled
\* otherwise
Limits_NeedsViability(h, reg) ==
    IF HardStop(reg, h.r_bee)
    THEN [region |-> reg, duty_scale |-> Zero, allow_foraging |-> FALSE]
    ELSE IF Throttled(reg, h.r_bee) \/ ~h.within_viability
    THEN [region |-> reg, duty_scale |-> Mul(Alpha(h.r_bee), Half),
          allow_foraging |-> FALSE]
    ELSE [region |-> reg, duty_scale |-> One, allow_foraging |-> TRUE]

\* lim, from the locals hz and region
Limits(h, reg) ==
    IF HardStop(reg, h.r_bee)
    THEN [region |-> reg, duty_scale |-> Zero, allow_foraging |-> FALSE]
    ELSE IF Throttled(reg, h.r_bee)
    THEN [region |-> reg, duty_scale |-> Mul(Alpha(h.r_bee), Half),
          allow_foraging |-> FALSE]
    ELSE [region |-> reg, duty_scale |-> One, allow_foraging |-> TRUE]

\* ------------------------------------------------------------------------
\* The engine and its caller
\* ------------------------------------------------------------------------

Threads == 1..NumThreads

\* a thread that is in no call
IdleThread ==
    [op |-> "idle", at |-> "idle", s |-> NoState, voc_ug_m3 |-> Zero,
     hz |-> NoHazard, region |-> FORAGE_SAFE, lim |-> NoLimits]

\* the constructor: the five members are copies of its arguments
Init ==
    /\ \E lc50 \in LC50Vectors, w \in WeightVectors, viab \in Viabilities :
           params_ = BeeHazardParams(lc50, w, viab)
    /\ foragePoly_ \in ForagePolys
    /\ retreatPoly_ \in RetreatPolys
    /\ rBeeSoftLimit_ \in SoftLimits
    /\ rBeeHardLimit_ \in HardLimits
    /\ pc = "idle"
    /\ again = FALSE
    /\ s = NoState
    /\ voc_ug_m3 = Zero
    /\ hz = NoHazard
    /\ region = FORAGE_SAFE
    /\ lim = NoLimits
    /\ thr = [t \in Threads |-> IdleThread]

\* h = computeHazard(st, voc)
ComputeHazard(st, voc) ==
    /\ pc = "idle"
    /\ pc' = "computeHazard"
    /\ again' = FALSE
    /\ s' = st
    /\ voc_ug_m3' = voc
    /\ hz' = computeHazard(st, voc)
    /\ UNCHANGED <<engine, region, lim, thr>>

\* the caller calls computeHazard again with the reading of channel c
\* (1 pm25, 2 nox, 3 o3, 4 voc) raised to v and the others as they were
ComputeHazardAgain(c, v) ==
    /\ pc = "computeHazard"
    /\ Lt(<<s.pm25_ug_m3, s.nox_ppb, s.o3_ppb, voc_ug_m3>>[c], v)
    /\ again' = TRUE
    /\ s' = [s EXCEPT !.pm25_ug_m3 = IF c = 1 THEN v ELSE @,
                      !.nox_ppb = IF c = 2 THEN v ELSE @,
                      !.o3_ppb = IF c = 3 THEN v ELSE @]
    /\ voc_ug_m3' = IF c = 4 THEN v ELSE voc_ug_m3
    /\ hz' = computeHazard(s', voc_ug_m3')
    /\ UNCHANGED <<engine, pc, region, lim, thr>>

\* region = classifyRegion(st)
ClassifyRegion(st) ==
    /\ pc = "idle"
    /\ pc' = "classifyRegion"
    /\ s' = st
    /\ region' = classifyRegion(st)
    /\ UNCHANGED <<engine, again, voc_ug_m3, hz, lim, thr>>

\* lim = computeActuation(st, voc): its locals hz and region, then lim
ComputeActuation(st, voc) ==
    /\ pc = "idle"
    /\ pc' = "computeActuation"
    /\ s' = st
    /\ voc_ug_m3' = voc
    /\ hz' = computeHazard(st, voc)
    /\ region' = classifyRegion(st)
    /\ lim' = Limits(hz', region')
    /\ UNCHANGED <<engine, again, thr>>

\* the caller drops the result; the engine is as constructed
Return ==
    /\ pc # "idle"
    /\ pc' = "idle"
    /\ again' = FALSE
    /\ s' = NoState
    /\ voc_ug_m3' = Zero
    /\ hz' = NoHazard
    /\ region' = FORAGE_SAFE
    /\ lim' = NoLimits
    /\ UNCHANGED <<engine, thr>>

Next ==
    \/ \E st \in States, voc \in Readings : ComputeHazard(st, voc)
    \/ \E c \in 1..4, v \in Readings : ComputeHazardAgain(c, v)
    \/ \E st \in States : ClassifyRegion(st)
    \/ \E st \in States, voc \in Readings : ComputeActuation(st, voc)
    \/ Return

Spec == Init /\ [][Next]_vars

\* ------------------------------------------------------------------------
\* Threads calling one engine without synchronization.  A call is a sequence
\* of steps, one for each group of reads of the members; the steps of
\* different threads interleave freely.
\* ------------------------------------------------------------------------

\* the arguments <<s, voc_ug_m3>> the threads call with
ThreadArgs ==
    {<<State5D(Zero, One, Zero, One, One), One>>,
     <<State5D(Zero, Zero, Zero, One, One), Zero>>,
     <<State5D(One, Zero, Zero, One, Zero), Zero>>,
     <<State5D(One, One, Zero, One, One), Num(0 - 1)>>}

\* the engine the threads share: fully constructed before the first call
InitThreads ==
    /\ params_ = BeeHazardParams(<<Num(1), Num(0), Num(2), Num(0 - 1)>>,
                                 <<Half, One, Zero, Num(2)>>, One)
    /\ foragePoly_ \in ForagePolys
    /\ retreatPoly_ = RetreatPolyA
    /\ rBeeSoftLimit_ \in SoftLimits
    /\ rBeeHardLimit_ = Num(2)
    /\ pc = "idle"
    /\ again = FALSE
    /\ s = NoState
    /\ voc_ug_m3 = Zero
    /\ hz = NoHazard
    /\ region = FORAGE_SAFE
    /\ lim = NoLimits
    /\ thr = [t \in Threads |-> IdleThread]

\* thread t enters op with the arguments st and voc
Call(t, op, st, voc) ==
    /\ thr[t].op = "idle"
    /\ thr' = [thr EXCEPT ![t] = [IdleThread EXCEPT !.op = op, !.at = "entry",
                                                     !.s = st, !.voc_ug_m3 = voc]]
    /\ UNCHANGED <<engine, caller>>

\* computeHazard: the four ratios, h.r_bee and h.pm25_eq, read from params_
HazardIndices(t) ==
    /\ thr[t].op = "computeHazard"
    /\ thr[t].at = "entry"
    /\ thr' = [thr EXCEPT ![t].at = "viability",
                          ![t].hz = [r_bee |-> RBee(thr[t].s, thr[t].voc_ug_m3),
                                     pm25_eq |-> Pm25Eq(thr[t].s, thr[t].voc_ug_m3),
                                     within_viability |-> FALSE]]
    /\ UNCHANGED <<engine, caller>>

\* mutant: the call keeps its risk index as the engine's soft limit
HazardViability_StoresLimit(t) ==
    /\ thr[t].op = "computeHazard"
    /\ thr[t].at = "viability"
    /\ thr' = [thr EXCEPT ![t].at = "returned",
                          ![t].hz.within_viability =
                              /\ Le(thr[t].hz.pm25_eq, params_.pm25_eq_viability_ug_m3)
                              /\ Le(thr[t].hz.r_bee, rBeeSoftLimit_)]
    /\ rBeeSoftLimit_' = thr[t].hz.r_bee
    /\ UNCHANGED <<params_, foragePoly_, retreatPoly_, rBeeHardLimit_, caller>>

\* computeHazard: h.within_viability, read from params_ and rBeeSoftLimit_,
\* and return h
HazardViability(t) ==
    /\ thr[t].op = "computeHazard"
    /\ thr[t].at = "viability"
    /\ thr' = [thr EXCEPT ![t].at = "returned",
                          ![t].hz.within_viability =
                              /\ Le(thr[t].hz.pm25_eq, params_.pm25_eq_viability_ug_m3)
                              /\ Le(thr[t].hz.r_bee, rBeeSoftLimit_)]
    /\ UNCHANGED <<engine, caller>>

\* classifyRegion: inForage, read from foragePoly_
ClassifyForage(t) ==
    /\ thr[t].op = "classifyRegion"
    /\ thr[t].at = "entry"
    /\ thr' = IF inPolytope(foragePoly_, thr[t].s)
              THEN [thr EXCEPT ![t].at = "returned", ![t].region = FORAGE_SAFE]
              ELSE [thr EXCEPT ![t].at = "retreat"]
    /\ UNCHANGED <<engine, caller>>

\* classifyRegion: inRetreat, read from retreatPoly_
ClassifyRetreat(t) ==
    /\ thr[t].op = "classifyRegion"
    /\ thr[t].at = "retreat"
    /\ thr' = [thr EXCEPT ![t].at = "returned",
                          ![t].region = IF inPolytope(retreatPoly_, thr[t].s)
                                        THEN RETREAT_ONLY ELSE FORBIDDEN]
    /\ UNCHANGED <<engine, caller>>

\* computeActuation: hz = computeHazard(s, voc_ug_m3)
ActuationHazard(t) ==
    /\ thr[t].op = "computeActuation"
    /\ thr[t].at = "entry"
    /\ thr' = [thr EXCEPT ![t].at = "region",
                          ![t].hz = computeHazard(thr[t].s, thr[t].voc_ug_m3)]
    /\ UNCHANGED <<engine, caller>>

\* computeActuation: region = classifyRegion(s)
ActuationRegion(t) ==
    /\ thr[t].op = "computeActuation"
    /\ thr[t].at = "region"
    /\ thr' = [thr EXCEPT ![t].at = "limits",
                          ![t].region = classifyRegion(thr[t].s)]
    /\ UNCHANGED <<engine, caller>>

\* computeActuation: the three tiers, read from the two limits, and return lim
ActuationLimits(t) ==
    /\ thr[t].op = "computeActuation"
    /\ thr[t].at = "limits"
    /\ thr' = [thr EXCEPT ![t].at = "returned",
                          ![t].lim = Limits(thr[t].hz, thr[t].region)]
    /\ UNCHANGED <<engine, caller>>

\* thread t drops the result of its call
ThreadReturn(t) ==
    /\ thr[t].at = "returned"
    /\ thr' = [thr EXCEPT ![t] = IdleThread]
    /\ UNCHANGED <<engine, caller>>

NextThreads ==
    \/ \E t \in Threads, a \in ThreadArgs : Call(t, "computeHazard", a[1], a[2])
    \/ \E t \in Threads, a \in ThreadArgs : Call(t, "classifyRegion", a[1], Zero)
    \/ \E t \in Threads, a \in ThreadArgs : Call(t, "computeActuation", a[1], a[2])
    \/ \E t \in Threads : HazardIndices(t)
    \/ \E t \in Threads : HazardViability(t)
    \/ \E t \in Threads : ClassifyForage(t)
    \/ \E t \in Threads : ClassifyRetreat(t)
    \/ \E t \in Threads : ActuationHazard(t)
    \/ \E t \in Threads : ActuationRegion(t)
    \/ \E t \in Threads : ActuationLimits(t)
    \/ \E t \in Threads : ThreadReturn(t)

SpecThreads == InitThreads /\ [][NextThreads]_vars

\* ------------------------------------------------------------------------
\* Properties of computeActuation
\* ------------------------------------------------------------------------

\* computeActuation has returned lim for the arguments s and voc_ug_m3
ActuationReturned == pc = "computeActuation"

\* the hard-stop tier did not fire and the region is retreat-only or the
\* risk index is above the soft limit
ThrottledTier ==
    /\ ActuationReturned
    /\ region # FORBIDDEN
    /\ ~Ge(hz.r_bee, rBeeHardLimit_)
    /\ (region = RETREAT_ONLY \/ Gt(hz.r_bee, rBeeSoftLimit_))

\* C1: whenever the region is FORBIDDEN or the risk index is at or above the
\* hard limit, computeActuation returns duty_scale 0.0 and allow_foraging
\* false; either condition alone is enough.
C1_HardStop ==
    ActuationReturned /\ (region = FORBIDDEN \/ Ge(hz.r_bee, rBeeHardLimit_))
        => lim.duty_scale = Zero /\ lim.allow_foraging = FALSE

\* C1: the risk index is at or above the hard limit in the forage-safe region
C1_Witness ==
    /\ ActuationReturned
    /\ region = FORAGE_SAFE
    /\ Ge(hz.r_bee, rBeeHardLimit_)
    /\ Le(hz.r_bee, rBeeSoftLimit_)
    /\ lim.duty_scale = Zero

\* C1: the region is FORBIDDEN and the risk index is 0, below the hard limit
C1_WitnessForbidden ==
    /\ ActuationReturned
    /\ region = FORBIDDEN
    /\ hz.r_bee = Zero
    /\ Lt(hz.r_bee, rBeeHardLimit_)
    /\ lim.duty_scale = Zero

\* C2: the duty_scale computeActuation returns lies in [0, 1], whatever the
\* configuration and the readings, negative readings and negative or
\* non-ordered limits included.
C2_DutyInUnitInterval ==
    ActuationReturned => Le(Zero, lim.duty_scale) /\ Le(lim.duty_scale, One)

\* C3 as stated: duty_scale 1.0 with allow_foraging true exactly when the
\* region is forage-safe and the risk index is at most the soft limit, and
\* allow_foraging false otherwise, also when the hard limit is at most the
\* soft limit.
C3_FullIffSafeAndSoft ==
    ActuationReturned =>
        LET full == region = FORAGE_SAFE /\ Le(hz.r_bee, rBeeSoftLimit_)
        IN  /\ (lim.duty_scale = One /\ lim.allow_foraging) <=> full
            /\ ~full => ~lim.allow_foraging

\* C3 amended: duty_scale 1.0 with allow_foraging true exactly when the
\* region is forage-safe, the risk index is at most the soft limit and the
\* risk index is below the hard limit; allow_foraging is false otherwise.
C3_FullIffSafeSoftBelowHard ==
    ActuationReturned =>
        LET full == /\ region = FORAGE_SAFE
                    /\ Le(hz.r_bee, rBeeSoftLimit_)
                    /\ Lt(hz.r_bee, rBeeHardLimit_)
        IN  /\ (lim.duty_scale = One /\ lim.allow_foraging) <=> full
            /\ lim.allow_foraging <=> full

\* C3: full operation under a hard limit that is not above the soft limit
C3_Witness ==
    /\ ActuationReturned
    /\ Le(rBeeHardLimit_, rBeeSoftLimit_)
    /\ region = FORAGE_SAFE
    /\ lim.duty_scale = One
    /\ lim.allow_foraging

\* C4: in the throttled tier the duty_scale never exceeds 0.5, for every
\* risk index that reaches the tier, negative ones included.
C4_ThrottledAtMostHalf == ThrottledTier => Le(lim.duty_scale, Half)

\* C5: in the throttled tier computeActuation returns duty_scale
\* max(0, 1 - risk/hardLimit) * 0.5 and allow_foraging false; for region
\* retreat-only, risk 0 and a positive hard limit that is exactly 0.5.
C5_ThrottledDuty ==
    ThrottledTier =>
        /\ lim.duty_scale =
               Mul(Max(Zero, Sub(One, Div(hz.r_bee, rBeeHardLimit_))), Half)
        /\ lim.allow_foraging = FALSE
        /\ (region = RETREAT_ONLY /\ hz.r_bee = Zero /\ Gt(rBeeHardLimit_, Zero))
               => lim.duty_scale = Half

\* C5: retreat-only with risk 0 under a positive hard limit, at half duty
C5_Witness ==
    /\ ThrottledTier
    /\ region = RETREAT_ONLY
    /\ hz.r_bee = Zero
    /\ Gt(rBeeHardLimit_, Zero)
    /\ lim.duty_scale = Half

\* C5: a throttled call where 1 - risk/hardLimit is negative and the clip at
\* 0 is what keeps the duty from going negative
C5_WitnessClip ==
    /\ ThrottledTier
    /\ Lt(Sub(One, Div(hz.r_bee, rBeeHardLimit_)), Zero)
    /\ lim.duty_scale = Zero

\* ------------------------------------------------------------------------
\* Properties of classifyRegion
\* ------------------------------------------------------------------------

\* region is classifyRegion(s): returned to the caller, or the local of
\* computeActuation
RegionReturned == pc \in {"classifyRegion", "computeActuation"}

\* C6: first match wins: FORAGE_SAFE iff s is in the forage polytope (also
\* when it is in the retreat polytope too), RETREAT_ONLY iff it is not in the
\* forage polytope but in the retreat polytope, FORBIDDEN iff it is in
\* neither; exactly one of the three labels is returned.
C6_FirstMatch ==
    RegionReturned =>
        LET inForage == inPolytope(foragePoly_, s)
            inRetreat == inPolytope(retreatPoly_, s)
        IN  /\ region \in RegionClass
            /\ region = FORAGE_SAFE <=> inForage
            /\ region = RETREAT_ONLY <=> (~inForage /\ inRetreat)
            /\ region = FORBIDDEN <=> (~inForage /\ ~inRetreat)

\* C6: a point in both polytopes, neither of them the whole space
C6_Witness ==
    /\ pc = "classifyRegion"
    /\ Len(foragePoly_.A) > 0
    /\ Len(retreatPoly_.A) > 0
    /\ inPolytope(foragePoly_, s)
    /\ inPolytope(retreatPoly_, s)
    /\ region = FORAGE_SAFE

\* C7: with a forage polytope of zero constraints classifyRegion returns
\* FORAGE_SAFE for every point, whatever the retreat polytope.
C7_EmptyForageAlwaysSafe ==
    RegionReturned /\ Len(foragePoly_.A) = 0 => region = FORAGE_SAFE

\* C7: a forage polytope of zero constraints and a point outside a retreat
\* polytope that has constraints
C7_Witness ==
    /\ pc = "classifyRegion"
    /\ Len(foragePoly_.A) = 0
    /\ Len(retreatPoly_.A) > 0
    /\ ~inPolytope(retreatPoly_, s)
    /\ region = FORAGE_SAFE

\* bound_i - row_i . x for the argument s
Slack(P, i) == Sub(P.b[i], Dot(P.A[i], Point(s)))

\* every row of P has row_i . x <= bound_i and one or more have equality
OnBoundary(P) ==
    /\ \A i \in 1..Len(P.A) : Le(Zero, Slack(P, i))
    /\ \E i \in 1..Len(P.A) : Slack(P, i) = Zero

\* a row of P has row_i . x above bound_i by n/d with n >= 1 and d < TolDen,
\* which is more than the tolerance 1/TolDen
AboveTolerance(P) ==
    \E i \in 1..Len(P.A) : Slack(P, i)[1] < 0 /\ Slack(P, i)[2] < TolDen

\* C8: membership is that of a closed region.  A point on the boundary of the
\* forage polytope is FORAGE_SAFE and one with a row above its bound by more
\* than the tolerance is not; of the points outside the forage polytope, one
\* on the boundary of the retreat polytope is RETREAT_ONLY and one with a row
\* above its bound by more than the tolerance is FORBIDDEN.
C8_ClosedRegion ==
    RegionReturned =>
        /\ OnBoundary(foragePoly_) => region = FORAGE_SAFE
        /\ AboveTolerance(foragePoly_) => region # FORAGE_SAFE
        /\ AboveTolerance(foragePoly_) /\ OnBoundary(retreatPoly_)
               => region = RETREAT_ONLY
        /\ AboveTolerance(foragePoly_) /\ AboveTolerance(retreatPoly_)
               => region = FORBIDDEN

\* C8: a point on the boundary of the forage polytope
C8_Witness ==
    /\ pc = "classifyRegion"
    /\ OnBoundary(foragePoly_)
    /\ region = FORAGE_SAFE

\* ------------------------------------------------------------------------
\* Properties of computeHazard
\* ------------------------------------------------------------------------

\* hz is computeHazard(s, voc_ug_m3): returned to the caller, or the local
\* of computeActuation
HazardReturned == pc \in {"computeHazard", "computeActuation"}

\* what a channel adds to the risk index
Contribution(w, reading, lc50) ==
    IF Le(lc50, Zero) THEN Zero ELSE Div(Mul(w, reading), lc50)

\* C9: a channel with a threshold <= 0 adds exactly 0 to the risk index,
\* whatever its reading and weight; one with a threshold > 0 adds
\* weight * reading / threshold; the risk index is the sum of the four, not
\* clamped.
C9_ChannelContributions ==
    HazardReturned =>
        hz.r_bee =
            Add(Contribution(params_.w_pm25, s.pm25_ug_m3, params_.lc50_pm25_ug_m3),
                Add(Contribution(params_.w_nox, s.nox_ppb, params_.lc50_nox_ppb),
                    Add(Contribution(params_.w_o3, s.o3_ppb, params_.lc50_o3_ppb),
                        Contribution(params_.w_voc, voc_ug_m3, params_.lc50_voc_ug_m3))))

\* C9: a weighted channel with threshold 0 and a reading that is not 0,
\* and a risk index above 1
C9_Witness ==
    /\ pc = "computeHazard"
    /\ params_.lc50_pm25_ug_m3 = Zero
    /\ params_.w_pm25 # Zero
    /\ s.pm25_ug_m3 # Zero
    /\ Gt(hz.r_bee, One)

WeightsNonNegative ==
    /\ Le(Zero, params_.w_pm25)
    /\ Le(Zero, params_.w_nox)
    /\ Le(Zero, params_.w_o3)
    /\ Le(Zero, params_.w_voc)

\* from this state to the next exactly one pollutant reading is raised and
\* the other readings stay
OneReadingRaised ==
    LET old == <<s.pm25_ug_m3, s.nox_ppb, s.o3_ppb, voc_ug_m3>>
        new == <<s'.pm25_ug_m3, s'.nox_ppb, s'.o3_ppb, voc_ug_m3'>>
    IN  /\ s'.temp_C = s.temp_C
        /\ s'.floral_m2_ha = s.floral_m2_ha
        /\ \E c \in 1..4 :
               /\ Lt(old[c], new[c])
               /\ \A k \in 1..4 : k # c => new[k] = old[k]

\* C10: with the configuration fixed and all weights non-negative, raising
\* one pollutant reading while the others stay never lowers the risk index
\* computeHazard returns.
C10_RiskMonotone ==
    [][(/\ pc = "computeHazard"
        /\ pc' = "computeHazard"
        /\ engine' = engine
        /\ WeightsNonNegative
        /\ OneReadingRaised) => Le(hz.r_bee, hz'.r_bee)]_vars

\* C10: computeHazard called again with one reading raised, under
\* non-negative weights, the channels of positive threshold among them
C10_Witness ==
    /\ pc = "computeHazard"
    /\ again
    /\ WeightsNonNegative
    /\ Gt(hz.r_bee, Zero)

\* pm25 + w_nox * nox + w_o3 * o3 + w_voc * voc for the arguments s and
\* voc_ug_m3
EquivalentConcentration ==
    Add(s.pm25_ug_m3,
        Add(Mul(params_.w_nox, s.nox_ppb),
            Add(Mul(params_.w_o3, s.o3_ppb),
                Mul(params_.w_voc, voc_ug_m3))))

\* C11: computeHazard sets within_viability to true if and only if the
\* equivalent-concentration index pm25 + w_nox*nox + w_o3*o3 + w_voc*voc is
\* at most the viability threshold and the risk index is at most the soft
\* risk limit.
C11_ViabilityIff ==
    HazardReturned =>
        /\ hz.pm25_eq = EquivalentConcentration
        /\ hz.within_viability <=>
               (/\ Le(EquivalentConcentration, params_.pm25_eq_viability_ug_m3)
                /\ Le(hz.r_bee, rBeeSoftLimit_))

\* C11: the flag is false with the index within the viability threshold,
\* the risk index alone being above the soft limit
C11_Witness ==
    /\ pc = "computeHazard"
    /\ Le(hz.pm25_eq, params_.pm25_eq_viability_ug_m3)
    /\ Gt(hz.r_bee, rBeeSoftLimit_)
    /\ hz.within_viability = FALSE

\* C11: the flag is false with the risk index within the soft limit, the
\* index alone being above the viability threshold
C11_WitnessIndex ==
    /\ pc = "computeHazard"
    /\ Gt(hz.pm25_eq, params_.pm25_eq_viability_ug_m3)
    /\ Le(hz.r_bee, rBeeSoftLimit_)
    /\ hz.within_viability = FALSE

\* C11: the flag is true, both conditions holding at their limits
C11_WitnessTrue ==
    /\ pc = "computeHazard"
    /\ hz.pm25_eq = params_.pm25_eq_viability_ug_m3
    /\ hz.r_bee = rBeeSoftLimit_
    /\ hz.within_viability = TRUE

\* ------------------------------------------------------------------------
\* Properties of concurrent calls
\* ------------------------------------------------------------------------

\* thread t has returned from op
Returned(t, op) == thr[t].op = op /\ thr[t].at = "returned"

\* the result of every returned call is that of the same call run alone on
\* the engine
ResultsAsAlone ==
    \A t \in Threads :
        /\ Returned(t, "computeHazard")
               => thr[t].hz = computeHazard(thr[t].s, thr[t].voc_ug_m3)
        /\ Returned(t, "classifyRegion")
               => thr[t].region = classifyRegion(thr[t].s)
        /\ Returned(t, "computeActuation")
               => thr[t].lim = Limits(computeHazard(thr[t].s, thr[t].voc_ug_m3),
                                      classifyRegion(thr[t].s))

\* two returned calls of the same operation with the same arguments have the
\* same result
SameCallSameResult ==
    \A t, u \in Threads :
        (/\ thr[t].at = "returned"
         /\ thr[u].at = "returned"
         /\ thr[t].op = thr[u].op
         /\ thr[t].s = thr[u].s
         /\ thr[t].voc_ug_m3 = thr[u].voc_ug_m3)
            => /\ thr[t].hz = thr[u].hz
               /\ thr[t].region = thr[u].region
               /\ thr[t].lim = thr[u].lim

\* C12: whatever the interleaving of the threads' calls, no step of a call
\* changes the engine's configuration, every call returns what the same call
\* returns when run alone, and calls with identical inputs return identical
\* results.
C12_ThreadSafe ==
    /\ [][engine' = engine]_vars
    /\ [](ResultsAsAlone /\ SameCallSameResult)

\* C12: two threads have returned from computeActuation with the same
\* arguments and the same directive, a throttled one
C12_Witness ==
    \E t, u \in Threads :
        /\ t # u
        /\ Returned(t, "computeActuation")
        /\ Returned(u, "computeActuation")
        /\ thr[t].s = thr[u].s
        /\ thr[t].voc_ug_m3 = thr[u].voc_ug_m3
        /\ thr[t].lim = thr[u].lim
        /\ thr[t].lim.duty_scale = <<3, 8>>

\* C12: a thread is between the reads of a computeHazard call while another
\* has returned from the same call
C12_WitnessOverlap ==
    \E t, u \in Threads :
        /\ Returned(t, "computeHazard")
        /\ thr[u].op = "computeHazard"
        /\ thr[u].at = "viability"
        /\ thr[t].s = thr[u].s
        /\ thr[t].voc_ug_m3 = thr[u].voc_ug_m3

\* C13: on one engine, two computeActuation calls with the same region
\* label and the same risk index return the same duty_scale and the same
\* allow_foraging, whatever their pm25_eq and within_viability.
C13_RiskIndexOnly ==
    \A t, u \in Threads :
        (/\ Returned(t, "computeActuation")
         /\ Returned(u, "computeActuation")
         /\ thr[t].region = thr[u].region
         /\ thr[t].hz.r_bee = thr[u].hz.r_bee)
            => /\ thr[t].lim.duty_scale = thr[u].lim.duty_scale
               /\ thr[t].lim.allow_foraging = thr[u].lim.allow_foraging

\* C13: two calls with the same region and risk index whose pm25_eq and
\* within_viability differ; foraging is allowed outside the viability corridor
C13_Witness ==
    \E t, u \in Threads :
        /\ Returned(t, "computeActuation")
        /\ Returned(u, "computeActuation")
        /\ thr[t].region = thr[u].region
        /\ thr[t].hz.r_bee = thr[u].hz.r_bee
        /\ thr[t].hz.pm25_eq # thr[u].hz.pm25_eq
        /\ thr[t].hz.within_viability = FALSE
        /\ thr[u].hz.within_viability = TRUE
        /\ thr[t].lim.allow_foraging = TRUE
        /\ thr[u].lim = thr[t].lim

====
